---- MODULE Spec2Model ----
(***************************************************************************)
(* Model of the device-memory sub-allocator of hublot                      *)
(* (src/src/render/memalloc.rs): Chunk, Block, Pool and the sizing policy. *)
(*                                                                         *)
(* Spec: one heap (one Pool behind its Mutex) with the device's raw memory *)
(* objects and the sub-allocations the callers hold, call by call.         *)
(* SelSpec: the selection of a memory type (find_mem_type_index).          *)
(* SizeSpec: the sizing of one heap's Pool (heap_block_size).              *)
(* AlignSpec: align_up applied to an address, and again to its result.     *)
(* BufferSpec: allocate_buffer / allocate_image as whole calls on one heap *)
(* (resource creation, allocate_raw's retry loop, bind) and the frees.     *)
(* RawSpec: the Allocator with two heaps and two caller threads, step by   *)
(* step through allocate_raw's retry loop and the Mutex of each heap.      *)
(* Sequences are 1-based here and 0-based in the source: a source index i  *)
(* is the position i + 1 below.                                            *)
(*                                                                         *)
(* A Rust panic inside a Pool operation happens with the heap's Mutex      *)
(* held: the Mutex is poisoned, every later lock().unwrap() panics before  *)
(* touching the Pool, and the Pool keeps the state it had when the panic   *)
(* was raised.                                                             *)
(***************************************************************************)
EXTENDS Integers, Sequences, FiniteSets, Bags, TLC

\* ---------------------------------------------------------------- bounds

\* Capacity in bytes of the modelled heap, as the device reports it.
HeapSize == 8
\* Request sizes are 1..MaxSize, and HeapSize; alignments are the powers of
\* two up to 2 * MaxSize.
MaxSize == 2
\* Number of allocation calls of a run.
MaxOps == 3
\* Number of raw memory objects the device grants (its allocation-count cap).
MaxMems == 2
\* Number of memory types the device reports.
NumTypes == 3

\* ------------------------------------------------------- program constants

LARGE_HEAP_THRESHOLD == 1073741824
LARGE_HEAP_BLOCK_SIZE == 268435456

VARIABLES
    pool,               \* the heap's Pool: max_bytes, used_bytes, block_size, blocks
    memories,           \* the device's raw memory objects, by handle: size, type
                        \* and how many times they were released
    live,               \* the bag of sub-allocations the callers hold (not yet freed)
    poisoned,           \* the heap's Mutex is poisoned (a panic under the lock)
    debug_assertions,   \* the build checks debug_assert! (a debug build)
    nops,               \* allocation calls made so far
    last,               \* what the last call was given and what it returned
    mem_types,          \* Allocator::mem_props.memory_types: the properties and
                        \* the heap of each memory type of the device
    sel,                \* the call of find_mem_type_index: its inputs and result
    pools,              \* Allocator::pools: the Pool of each heap
    mutexes,            \* the Mutex of each Pool: the thread that holds it, poisoned
    threads,            \* the caller threads: where each is in its call
    allocator_options,  \* Allocator::options (AllocatorOptions): dedicated
    sizing,             \* Allocator::new sizing the Pool of one heap: the heap,
                        \* its HeapOptions and what heap_block_size returned
    aligning            \* a call of align_up: its arguments, what it returned
                        \* and what it returned for its own result

\* the state of one heap's Pool and of its callers
PoolVars == <<pool, memories, live, poisoned, debug_assertions, nops, last>>

\* the state of the selection of a memory type
SelVars == <<mem_types, sel>>

\* the state of the Allocator with its heaps and caller threads
RawVars == <<pools, mutexes, threads, allocator_options>>

\* the state of the sizing of one heap's Pool
SizeVars == <<sizing>>

\* the state of a call of align_up
AlignVars == <<aligning>>

vars == <<pool, memories, live, poisoned, debug_assertions, nops, last,
          mem_types, sel, pools, mutexes, threads, allocator_options, sizing,
          aligning>>

\* ------------------------------------------------------------- utilities

Min(S) == CHOOSE x \in S : \A y \in S : x <= y

Max2(a, b) == IF a >= b THEN a ELSE b

Min2(a, b) == IF a <= b THEN a ELSE b

\* u64::is_power_of_two
RECURSIVE IsPowerOfTwo(_)
IsPowerOfTwo(x) == x = 1 \/ (x > 1 /\ x % 2 = 0 /\ IsPowerOfTwo(x \div 2))

\* u64::next_power_of_two: the smallest power of two >= x (1 for 0)
RECURSIVE PowerOfTwoFrom(_, _)
PowerOfTwoFrom(p, x) == IF p >= x THEN p ELSE PowerOfTwoFrom(2 * p, x)

\* a next_power_of_two twice as large, which the halving does not undo
NextPowerOfTwoDoubled(x) == 2 * PowerOfTwoFrom(1, x)

NextPowerOfTwo(x) == PowerOfTwoFrom(1, x)

\* Vec::insert(i, x), i 0-based
VecInsert(s, i, x) == SubSeq(s, 1, i) \o <<x>> \o SubSeq(s, i + 1, Len(s))

\* Vec::remove(i), i 0-based
VecRemove(s, i) == SubSeq(s, 1, i) \o SubSeq(s, i + 2, Len(s))

\* addr | (alignment - 1), alignment a power of two
OrAlignMask(addr, alignment) == (addr \div alignment) * alignment + (alignment - 1)

\* align_up without the carry: the address is left on the last byte of its
\* alignment unit
align_up_no_carry(addr, alignment) ==
    IF addr % alignment = 0 THEN addr ELSE OrAlignMask(addr, alignment)

\* align_up without the test of the low bits
align_up_always(addr, alignment) == OrAlignMask(addr, alignment) + 1

align_up(addr, alignment) ==
    IF addr % alignment = 0 THEN addr ELSE OrAlignMask(addr, alignment) + 1

\* ----------------------------------------------------------------- Chunk

Chunk(start, end, occupied) == [start |-> start, end |-> end, occupied |-> occupied]

\* ----------------------------------------------------------------- Block

\* Block::new: one free chunk spanning the block
BlockNew(mem, mem_type_index, size, dedicated) ==
    [mem |-> mem, mem_type_index |-> mem_type_index, dedicated |-> dedicated,
     chunks |-> <<Chunk(0, size, FALSE)>>]

\* self.chunks.iter_mut().filter(|c| !c.occupied): the positions of the free
\* chunks, ascending
FreePositions(chunks) ==
    SelectSeq([i \in 1..Len(chunks) |-> i], LAMBDA i : ~chunks[i].occupied)

\* the test of the placement loop on one free chunk
ChunkFits(c, size, alignment) ==
    align_up(align_up(c.start, alignment) + size, alignment) <= c.end

\* The search loop of Block::allocate: `spot`.  i is the value enumerate()
\* gives, which counts the free chunks only (enumerate follows filter).
BlockSpot(chunks, size, alignment) ==
    LET fp == FreePositions(chunks)
        ok == {k \in 1..Len(fp) : ChunkFits(chunks[fp[k]], size, alignment)}
    IN  IF ok = {} THEN [found |-> FALSE, i |-> 0, start |-> 0, end |-> 0]
        ELSE LET k == Min(ok)
                 start == align_up(chunks[fp[k]].start, alignment)
             IN  [found |-> TRUE, i |-> k - 1, start |-> start,
                  end |-> align_up(start + size, alignment)]

\* The closure of Block::allocate given to spot.map: the pads are inserted
\* around self.chunks[idx]; the chunk `new` itself is only returned.
BlockSplit(chunks, idx, start, end) ==
    LET current == chunks[idx + 1]
        pre == start > current.start
        c1 == IF pre THEN VecInsert(chunks, idx, Chunk(current.start, start, FALSE))
              ELSE chunks
        idx1 == IF pre THEN idx + 1 ELSE idx
    IN  IF end < current.end
        THEN VecInsert(c1, idx1 + 1, Chunk(end, current.end, FALSE))
        ELSE c1

\* Block::allocate: Some(AllocRes) with the new chunk list, or None
BlockAllocate(chunks, size, alignment) ==
    LET spot == BlockSpot(chunks, size, alignment)
    IN  IF spot.found
        THEN [found |-> TRUE, chunks |-> BlockSplit(chunks, spot.i, spot.start, spot.end),
              start |-> spot.start, end |-> spot.end]
        ELSE [found |-> FALSE, chunks |-> chunks, start |-> 0, end |-> 0]

\* Block::free after the chunk at 0-based idx was marked free: the front merge
\* and the back merge.  panic: an index out of the chunk list.
BlockMerge(chunks, idx) ==
    LET front == idx > 0 /\ ~chunks[idx].occupied
        c1 == IF front
              THEN [VecRemove(chunks, idx) EXCEPT ![idx].end = chunks[idx + 1].end]
              ELSE chunks
        i1 == IF front THEN idx - 1 ELSE idx
    IN  IF ~(i1 < Len(c1)) THEN [panic |-> FALSE, chunks |-> c1]
        ELSE IF i1 + 2 > Len(c1) THEN [panic |-> TRUE, chunks |-> c1]
        ELSE IF c1[i1 + 2].occupied THEN [panic |-> FALSE, chunks |-> c1]
        ELSE LET c2 == VecRemove(c1, i1)
             IN  IF i1 + 2 > Len(c2) THEN [panic |-> TRUE, chunks |-> c2]
                 ELSE [panic |-> FALSE,
                       chunks |-> [c2 EXCEPT ![i1 + 2].start = c1[i1 + 1].start]]

\* a Block::free that reports an emptied Block whenever a chunk is left
BlockEmptiedAlways(chunks) == Len(chunks) >= 1

\* what Block::free returns
BlockEmptied(chunks) == Len(chunks) = 1

\* Block::free: the chunk list it leaves, whether it panicked, and what it
\* returned (no occupied chunk is left)
BlockFree(chunks, addr, debug) ==
    LET at == {i \in 1..Len(chunks) : chunks[i].start = addr}
    IN  IF at = {} THEN [panic |-> TRUE, chunks |-> chunks, ret |-> FALSE]
        ELSE LET p == Min(at)
             IN  IF debug /\ ~chunks[p].occupied
                 THEN [panic |-> TRUE, chunks |-> chunks, ret |-> FALSE]
                 ELSE LET m == BlockMerge([chunks EXCEPT ![p].occupied = FALSE], p - 1)
                          c == m.chunks
                      IN  IF m.panic THEN [panic |-> TRUE, chunks |-> c, ret |-> FALSE]
                          ELSE IF debug /\ (Len(c) = 0 \/ (Len(c) = 1 /\ c[1].occupied))
                          THEN [panic |-> TRUE, chunks |-> c, ret |-> FALSE]
                          ELSE [panic |-> FALSE, chunks |-> c, ret |-> BlockEmptied(c)]

\* ---------------------------------------------------------- sizing policy

\* a sizing that halves at most once
HalveOnce(block_size, max_bytes) ==
    IF block_size > max_bytes THEN block_size \div 2 ELSE block_size

\* Allocator::heap_block_size: <<max_bytes, block_size>>
RECURSIVE HalveWhileAbove(_, _)
HalveWhileAbove(block_size, max_bytes) ==
    IF block_size > max_bytes THEN HalveWhileAbove(block_size \div 2, max_bytes)
    ELSE block_size

heap_block_size(heap, requested_max, requested_block_size) ==
    LET max_bytes == Min2(requested_max, heap)
        b1 == IF requested_block_size = 0 \/ requested_block_size > max_bytes
              THEN IF heap >= LARGE_HEAP_THRESHOLD THEN LARGE_HEAP_BLOCK_SIZE
                   ELSE heap \div 8
              ELSE requested_block_size
        b2 == IF ~IsPowerOfTwo(b1) THEN NextPowerOfTwo(b1) \div 2 ELSE b1
    IN  <<max_bytes, HalveWhileAbove(b2, max_bytes)>>

\* Allocator::new: the max_bytes a HeapUsage stands for
UsageMaxBytes(usage, heap) ==
    CASE usage.kind = "Forbid" -> 0
      [] usage.kind = "Whole" -> heap
      [] usage.kind = "Upto" -> usage.n

\* ------------------------------------------------------------------ Pool

\* Pool::new
PoolNew(max_bytes, block_size) ==
    [max_bytes |-> max_bytes, used_bytes |-> 0, block_size |-> block_size,
     blocks |-> <<>>]

\* What a Pool call gives back: the Pool it leaves, its result, the AllocRes
\* (mem, start, end) of an Ok, and what it did on the way: grew (it entered
\* new_block_alloc), sz (the size of the Block it wanted), requested (it
\* called the device's allocate_memory), created (the device returned a raw
\* memory, now a Block of the Pool).
PoolRes(p, res, mem, start, end, grew, sz, requested, created) ==
    [pool |-> p, res |-> res, mem |-> mem, start |-> start, end |-> end,
     grew |-> grew, sz |-> sz, requested |-> requested, created |-> created]

\* the capacity test of Pool::new_block_alloc: the request is turned down
HeapCheckFails(used_bytes, sz, max_bytes) == used_bytes + sz < max_bytes

\* a new_block_alloc that leaves used_bytes as it was
UsedBytesKept(used_bytes, sz) == used_bytes

\* used_bytes after Pool::new_block_alloc got the raw memory of a new Block
UsedBytesGrown(used_bytes, sz) == used_bytes + sz

\* the dedicated flag Pool::new_block_alloc gives the Block it creates
NewBlockFlag(sz, size, dedicated) == sz = size

\* Pool::new_block_alloc.  device_ok: the device grants the raw memory;
\* new_mem: the handle it returns.
PoolNewBlockAlloc(p, mem_type_index, size, alignment, dedicated, device_ok, new_mem) ==
    LET sz == IF dedicated THEN size ELSE Max2(size, p.block_size)
    IN  IF HeapCheckFails(p.used_bytes, sz, p.max_bytes)
        THEN PoolRes(p, "HeapExhausted", 0, 0, 0, TRUE, sz, FALSE, FALSE)
        ELSE IF ~device_ok
        THEN PoolRes(p, "AllocationError", 0, 0, 0, TRUE, sz, TRUE, FALSE)
        ELSE LET blk == BlockNew(new_mem, mem_type_index, sz,
                                 NewBlockFlag(sz, size, dedicated))
                 a == BlockAllocate(blk.chunks, size, alignment)
                 p1 == [p EXCEPT !.used_bytes = UsedBytesGrown(@, sz),
                                 !.blocks = Append(@, [blk EXCEPT !.chunks = a.chunks])]
             IN  IF a.found
                 THEN PoolRes(p1, "Ok", new_mem, a.start, a.end, TRUE, sz, TRUE, TRUE)
                 ELSE PoolRes(p1, "panic", new_mem, 0, 0, TRUE, sz, TRUE, TRUE)

\* the Blocks Pool::allocate_pool tries, in order
PoolCandidates(blocks, mem_type_index) ==
    SelectSeq([i \in 1..Len(blocks) |-> i],
              LAMBDA i : blocks[i].mem_type_index = mem_type_index
                         /\ ~blocks[i].dedicated)

\* an allocate_pool that grows the Pool whatever no_alloc says
NoAllocIgnored(no_alloc) == FALSE

\* allocate_pool, no Block had room: the call stops with NoFreeBlock
NoAllocStops(no_alloc) == no_alloc

\* Pool::allocate_pool
PoolAllocatePool(p, mem_type_index, size, alignment, no_alloc, device_ok, new_mem) ==
    LET cand == PoolCandidates(p.blocks, mem_type_index)
        ok == {k \in 1..Len(cand) :
                  BlockAllocate(p.blocks[cand[k]].chunks, size, alignment).found}
    IN  IF ok /= {}
        THEN LET b == cand[Min(ok)]
                 a == BlockAllocate(p.blocks[b].chunks, size, alignment)
             IN  PoolRes([p EXCEPT !.blocks[b].chunks = a.chunks], "Ok",
                         p.blocks[b].mem, a.start, a.end, FALSE, 0, FALSE, FALSE)
        ELSE IF NoAllocStops(no_alloc)
        THEN PoolRes(p, "NoFreeBlock", 0, 0, 0, FALSE, 0, FALSE, FALSE)
        ELSE PoolNewBlockAlloc(p, mem_type_index, size, alignment, FALSE,
                               device_ok, new_mem)

\* Pool::allocate
PoolAllocate(p, mem_type_index, size, alignment, control, device_ok, new_mem) ==
    IF control.kind = "Pool"
    THEN PoolAllocatePool(p, mem_type_index, size, alignment, control.no_alloc,
                          device_ok, new_mem)
    ELSE PoolNewBlockAlloc(p, mem_type_index, size, alignment, TRUE, device_ok, new_mem)

\* a Pool::free that takes the first Block of the collection
FirstBlock(blocks, mem) == 1

\* self.blocks.iter().position(|b| Arc::ptr_eq(&mem, &b.mem)): the first
\* Block that wraps raw memory mem
OwningBlock(blocks, mem) == Min({i \in 1..Len(blocks) : blocks[i].mem = mem})

\* Pool::free.  others: the number of other live sub-allocations that share
\* the raw memory (the other Arcs Arc::try_unwrap finds).  removed: the Block
\* left the collection; released: device.free_memory was called.
PoolFree(p, mem, addr, others, debug) ==
    LET at == {i \in 1..Len(p.blocks) : p.blocks[i].mem = mem}
    IN  IF at = {}
        THEN [pool |-> p, panic |-> TRUE, removed |-> FALSE, released |-> FALSE]
        ELSE LET b == OwningBlock(p.blocks, mem)
                 f == BlockFree(p.blocks[b].chunks, addr, debug)
                 p1 == [p EXCEPT !.blocks[b].chunks = f.chunks]
                 p2 == [p1 EXCEPT !.blocks = VecRemove(@, b - 1)]
             IN  IF f.panic
                 THEN [pool |-> p1, panic |-> TRUE, removed |-> FALSE, released |-> FALSE]
                 ELSE IF ~f.ret
                 THEN [pool |-> p1, panic |-> FALSE, removed |-> FALSE, released |-> FALSE]
                 ELSE IF others > 0
                 THEN [pool |-> p2, panic |-> TRUE, removed |-> TRUE, released |-> FALSE]
                 ELSE [pool |-> p2, panic |-> FALSE, removed |-> TRUE, released |-> TRUE]

\* ------------------------------------------------ memory type selection

\* hal::memory::Properties: the bits a memory type may have
Props == {"DEVICE_LOCAL", "CPU_VISIBLE", "COHERENT", "CPU_CACHED"}

\* Properties::contains: every bit of other is a bit of self
PropsContains(self, other) == other \subseteq self

\* the bits a MemoryUsage adds to required (the match of find_mem_type_index)
UsageRequired(usage) ==
    CASE usage = "CpuOnly" -> {"CPU_VISIBLE", "COHERENT"}
      [] usage = "CpuToGpu" -> {"CPU_VISIBLE"}
      [] usage = "GpuToCpu" -> {"CPU_VISIBLE"}
      [] OTHER -> {}

\* the bits a MemoryUsage adds to preferred
UsagePreferred(usage) ==
    CASE usage = "GpuOnly" -> {"DEVICE_LOCAL"}
      [] usage = "CpuToGpu" -> {"DEVICE_LOCAL"}
      [] usage = "GpuToCpu" -> {"COHERENT", "CPU_CACHED"}
      [] OTHER -> {}

\* the test of the scan on the properties of one memory type: the type is
\* kept when it passes
TypeEligible(required, props) == PropsContains(required, props)

\* Option<usize>
None == [some |-> FALSE, idx |-> 0, score |-> 0]

Some(idx, score) == [some |-> TRUE, idx |-> idx, score |-> score]

\* The scan of find_mem_type_index from type i on.  A mask is the set of the
\* indices whose bit is set.
RECURSIVE ScanTypes(_, _, _, _, _, _)
ScanTypes(types, i, mask, required, preferred, index) ==
    IF i >= Len(types) THEN index
    ELSE LET props == types[i + 1].properties
             score == Cardinality(preferred \cap props)
         IN  IF i \notin mask \/ ~TypeEligible(required, props)
             THEN ScanTypes(types, i + 1, mask, required, preferred, index)
             ELSE ScanTypes(types, i + 1, mask, required, preferred,
                            IF ~index.some THEN Some(i, score)
                            ELSE IF score > index.score THEN Some(i, score)
                            ELSE index)

\* Allocator::find_mem_type_index
find_mem_type_index(types, allowed_index_mask, options) ==
    LET mask == IF options.type_index_mask /= {}
                THEN allowed_index_mask \cap options.type_index_mask
                ELSE allowed_index_mask
        preferred == options.preferred_props \cup UsagePreferred(options.usage)
        required == options.required_props \cup UsageRequired(options.usage)
    IN  ScanTypes(types, 0, mask, required, preferred, None)

\* an allocate_raw that leaves the bit of the type it tried in allowed_mask
ClearBitKept(mask, idx) == mask

\* allowed_mask &= !(1 << idx)
ClearBit(mask, idx) == mask \ {idx}

\* ------------------------------------------------------------ the inputs

Sizes == (1..MaxSize) \cup {HeapSize}

Alignments == {a \in 1..(2 * MaxSize) : IsPowerOfTwo(a)}

\* the memory types of the heap, by index
MemTypes == {0, 1}

\* AllocControl
Controls == {[kind |-> "Pool", no_alloc |-> FALSE],
             [kind |-> "Pool", no_alloc |-> TRUE],
             [kind |-> "Dedicated", no_alloc |-> FALSE]}

\* HeapOptions of the heap: usage and block_size
HeapUsages == {[kind |-> "Forbid", n |-> 0], [kind |-> "Whole", n |-> 0],
               [kind |-> "Upto", n |-> HeapSize \div 2]}

BlockSizeOptions == {0, HeapSize}

\* the indices of the device's memory types
TypeIndices == 0..(NumTypes - 1)

\* The property sets a memory type may report: host-coherent and host-cached
\* memory is host-visible.
TypeProperties ==
    {props \in SUBSET Props :
        (props \cap {"COHERENT", "CPU_CACHED"} /= {}) => "CPU_VISIBLE" \in props}

\* Option<MemoryUsage>
MemoryUsages == {"None", "GpuOnly", "CpuOnly", "CpuToGpu", "GpuToCpu"}

\* AllocOptions, the fields find_mem_type_index reads
SelOptions ==
    [usage : MemoryUsages,
     preferred_props : {{}, {"COHERENT"}, {"DEVICE_LOCAL", "COHERENT"}},
     required_props : {{}, {"DEVICE_LOCAL"}, {"CPU_VISIBLE"}},
     type_index_mask : {{}} \cup {{i} : i \in TypeIndices}]

\* The heap sizes of the sizing: the small ones, and those around the large
\* heap threshold (the largest is one byte short of twice the threshold).
SizeHeaps ==
    (0..(2 * HeapSize))
    \cup {LARGE_HEAP_THRESHOLD \div 2, LARGE_HEAP_THRESHOLD - 1, LARGE_HEAP_THRESHOLD,
          LARGE_HEAP_THRESHOLD + (LARGE_HEAP_THRESHOLD - 1)}

\* HeapOptions::usage of the sizing
SizeUsages ==
    {[kind |-> "Forbid", n |-> 0], [kind |-> "Whole", n |-> 0]}
    \cup {[kind |-> "Upto", n |-> n] :
             n \in (0..(2 * HeapSize)) \cup {LARGE_HEAP_BLOCK_SIZE \div 2,
                                            LARGE_HEAP_THRESHOLD}}

\* HeapOptions::block_size of the sizing (0: the default)
SizeBlockSizes ==
    (0..(2 * HeapSize))
    \cup {LARGE_HEAP_BLOCK_SIZE \div 2, LARGE_HEAP_BLOCK_SIZE,
          LARGE_HEAP_BLOCK_SIZE + LARGE_HEAP_BLOCK_SIZE \div 2, LARGE_HEAP_THRESHOLD}

\* reqs.type_mask, and what is left of it in the retry loop: not zero
AllowedMasks == (SUBSET TypeIndices) \ {{}}

\* no call of find_mem_type_index yet
NoSel ==
    [op |-> "none", allowed_index_mask |-> {},
     options |-> [usage |-> "None", preferred_props |-> {}, required_props |-> {},
                  type_index_mask |-> {}],
     res |-> None]

\* no Allocator with threads
RawIdle ==
    /\ pools = <<>>
    /\ mutexes = <<>>
    /\ threads = <<>>
    /\ allocator_options = [dedicated |-> FALSE]

\* no heap being sized
\* no call of align_up
NoAligning == [op |-> "none", addr |-> 0, alignment |-> 1, res |-> 0, again |-> 0]

NoSizing ==
    [op |-> "none", heap |-> 0, usage |-> [kind |-> "Whole", n |-> 0],
     block_size |-> 0, res |-> <<0, 0>>]

\* ------------------------------------------------------- the state machine

\* AllocRes: the shared handle of the raw memory and the span (the heap index
\* is that of the one heap modelled)
AllocRes(mem, start, end) == [mem |-> mem, start |-> start, end |-> end]

\* the number of live sub-allocations that hold an Arc of raw memory mem
Holders(allocs, mem) ==
    BagCardinality([a \in {x \in BagToSet(allocs) : x.mem = mem} |-> allocs[a]])

NoCall ==
    [op |-> "none", res |-> "none", control |-> [kind |-> "Pool", no_alloc |-> FALSE],
     mem_type_index |-> 0, size |-> 0, alignment |-> 1,
     mem |-> 0, start |-> 0, end |-> 0,
     grew |-> FALSE, sz |-> 0, requested |-> FALSE, created |-> FALSE,
     removed |-> FALSE, released |-> FALSE, others |-> 0, fresh |-> FALSE,
     before |-> PoolNew(0, 0)]

\* Allocator::new for the heap: the Pool gets what heap_block_size returns
Init ==
    /\ \E usage \in HeapUsages, bs \in BlockSizeOptions :
          LET hb == heap_block_size(HeapSize, UsageMaxBytes(usage, HeapSize), bs)
          IN  pool = PoolNew(hb[1], hb[2])
    /\ memories = <<>>
    /\ live = EmptyBag
    /\ poisoned = FALSE
    /\ debug_assertions \in BOOLEAN
    /\ nops = 0
    /\ last = NoCall
    /\ mem_types = <<>>
    /\ sel = NoSel
    /\ RawIdle
    /\ sizing = NoSizing
    /\ aligning = NoAligning

\* What device.allocate_memory may answer to the call, if the call asks it:
\* the raw memory or an AllocationError, and only the error once the device
\* holds MaxMems raw memories.
DeviceAnswers(asked) ==
    IF ~asked THEN {FALSE}
    ELSE IF Len(memories) < MaxMems THEN BOOLEAN ELSE {FALSE}

\* Allocator::try_allocate: lock the heap's Pool, Pool::allocate.  The caller
\* keeps the AllocRes of an Ok (in its BufferAlloc or ImageAlloc).
Allocate ==
    /\ ~poisoned
    /\ nops < MaxOps
    /\ \E ty \in MemTypes, size \in Sizes, alignment \in Alignments,
          control \in Controls :
          \E device_ok \in DeviceAnswers(PoolAllocate(pool, ty, size, alignment, control,
                                                      TRUE, Len(memories) + 1).requested) :
          /\ \E r \in {PoolAllocate(pool, ty, size, alignment, control, device_ok,
                                    Len(memories) + 1)} :
                 /\ pool' = r.pool
                 /\ memories' = IF r.created
                                THEN Append(memories,
                                            [size |-> r.sz, mem_type_index |-> ty,
                                             released |-> 0])
                                ELSE memories
                 /\ live' = IF r.res = "Ok"
                            THEN live (+) SetToBag({AllocRes(r.mem, r.start, r.end)})
                            ELSE live
                 /\ poisoned' = (r.res = "panic")
                 /\ last' = [NoCall EXCEPT !.op = "alloc", !.res = r.res,
                                !.control = control, !.mem_type_index = ty,
                                !.size = size, !.alignment = alignment,
                                !.mem = r.mem, !.start = r.start, !.end = r.end,
                                !.grew = r.grew, !.sz = r.sz,
                                !.requested = r.requested, !.created = r.created,
                                !.before = pool]
    /\ nops' = nops + 1
    /\ UNCHANGED debug_assertions
    /\ UNCHANGED <<SelVars, RawVars, SizeVars, AlignVars>>

\* Allocator::free_buffer / free_image: the allocation is given up by the
\* caller, the heap's Pool is locked, Pool::free.  fresh: the allocation freed
\* is the one the call before returned; the record then keeps what that call
\* asked for.
Free ==
    /\ ~poisoned
    /\ \E a \in BagToSet(live) :
          \E others \in {Holders(live, a.mem) - 1} :
          \E fresh \in {last.op = "alloc" /\ last.res = "Ok"
                         /\ a = AllocRes(last.mem, last.start, last.end)} :
          \E r \in {PoolFree(pool, a.mem, a.start, others, debug_assertions)} :
              /\ pool' = r.pool
              /\ memories' = IF r.released
                             THEN [memories EXCEPT ![a.mem].released = @ + 1]
                             ELSE memories
              /\ live' = live (-) SetToBag({a})
              /\ poisoned' = r.panic
              /\ last' = [NoCall EXCEPT !.op = "free",
                             !.res = IF r.panic THEN "panic" ELSE "Ok",
                             !.mem = a.mem, !.start = a.start, !.end = a.end,
                             !.removed = r.removed, !.released = r.released,
                             !.others = others, !.before = pool,
                             !.fresh = fresh,
                             !.size = IF fresh THEN last.size ELSE 0,
                             !.alignment = IF fresh THEN last.alignment ELSE 1,
                             !.mem_type_index = IF fresh THEN last.mem_type_index ELSE 0,
                             !.control = IF fresh THEN last.control ELSE NoCall.control]
    /\ UNCHANGED <<debug_assertions, nops>>
    /\ UNCHANGED <<SelVars, RawVars, SizeVars, AlignVars>>

Next == Allocate \/ Free

Spec == Init /\ [][Next]_vars

\* --------------------------------- allocate_buffer / allocate_image, whole

\* the memory types of the one heap: no property bit, heap 0
BufferTypes == [i \in 1..Cardinality(MemTypes) |-> [properties |-> {}, heap_index |-> 0]]

\* what allocate_buffer / allocate_image hand to allocate_raw: the
\* requirements of the resource and the options of the call
BufferRequests ==
    [size : {1, HeapSize}, alignment : {1},
     type_mask : {MemTypes, {1}},
     control : Controls, options : {NoSel.options}]

\* allocate_raw: the retry loop.  device[idx]: the device grants the raw
\* memory asked for memory type idx.  What it returns is what the Pool call
\* of the last attempt returned, or the error kept in common_err.
RECURSIVE AllocateRawLoop(_, _, _, _, _, _, _)
AllocateRawLoop(p, types, allowed_mask, common_err, req, device, new_mem) ==
    LET found == IF allowed_mask = {} THEN None
                 ELSE find_mem_type_index(types, allowed_mask, req.options)
    IN  IF ~found.some
        THEN PoolRes(p, IF common_err /= "none" THEN common_err ELSE "HeapExhausted",
                     0, 0, 0, FALSE, 0, FALSE, FALSE)
        ELSE LET r == PoolAllocate(p, found.idx, req.size, req.alignment, req.control,
                                   device[found.idx], new_mem)
             IN  IF r.res \in {"Ok", "panic"} THEN r
                 ELSE AllocateRawLoop(r.pool, types, ClearBit(allowed_mask, found.idx),
                                      r.res, req, device, new_mem)

\* Allocator::new for the heap, with the memory types the device reports
BufferInit ==
    /\ \E usage \in HeapUsages, bs \in BlockSizeOptions :
          LET hb == heap_block_size(HeapSize, UsageMaxBytes(usage, HeapSize), bs)
          IN  pool = PoolNew(hb[1], hb[2])
    /\ memories = <<>>
    /\ live = EmptyBag
    /\ poisoned = FALSE
    /\ debug_assertions \in BOOLEAN
    /\ nops = 0
    /\ last = NoCall
    /\ mem_types = BufferTypes
    /\ sel = NoSel
    /\ RawIdle
    /\ sizing = NoSizing
    /\ aligning = NoAligning

\* allocate_buffer / allocate_image: create the resource (create_ok: the
\* device does), allocate_raw for its requirements, bind the resource to the
\* range (bind_ok: the device does).  Each `?` returns the error at once; the
\* AllocRes of a failed bind is dropped with the call.
AllocateBuffer ==
    /\ ~poisoned
    /\ nops < MaxOps
    /\ \E req \in BufferRequests, create_ok \in BOOLEAN, bind_ok \in BOOLEAN :
       \E device \in [MemTypes -> DeviceAnswers(TRUE)] :
          IF ~create_ok
          THEN /\ last' = [NoCall EXCEPT !.op = "alloc", !.res = "CreationError",
                               !.control = req.control, !.size = req.size,
                               !.alignment = req.alignment, !.before = pool]
               /\ UNCHANGED <<pool, memories, live, poisoned>>
          ELSE \E r \in {AllocateRawLoop(pool, mem_types, req.type_mask, "none", req,
                                          device, Len(memories) + 1)} :
                 /\ pool' = r.pool
                 /\ memories' = IF r.created
                                THEN Append(memories,
                                            [size |-> r.sz,
                                             mem_type_index |->
                                                 r.pool.blocks[Len(r.pool.blocks)].mem_type_index,
                                             released |-> 0])
                                ELSE memories
                 /\ live' = IF r.res = "Ok" /\ bind_ok
                            THEN live (+) SetToBag({AllocRes(r.mem, r.start, r.end)})
                            ELSE live
                 /\ poisoned' = (r.res = "panic")
                 /\ last' = [NoCall EXCEPT
                                !.op = "alloc",
                                !.res = IF r.res = "Ok" /\ ~bind_ok THEN "BindError"
                                        ELSE r.res,
                                !.control = req.control, !.size = req.size,
                                !.alignment = req.alignment,
                                !.mem = r.mem, !.start = r.start, !.end = r.end,
                                !.grew = r.grew, !.sz = r.sz,
                                !.requested = r.requested, !.created = r.created,
                                !.before = pool]
    /\ nops' = nops + 1
    /\ UNCHANGED debug_assertions
    /\ UNCHANGED <<SelVars, RawVars, SizeVars, AlignVars>>

BufferNext == AllocateBuffer \/ Free

BufferSpec == BufferInit /\ [][BufferNext]_vars

\* ------------------------------------- the selection as a state machine

\* the Pool side at rest
PoolIdle ==
    /\ pool = PoolNew(0, 0)
    /\ memories = <<>>
    /\ live = EmptyBag
    /\ poisoned = FALSE
    /\ debug_assertions = FALSE
    /\ nops = 0
    /\ last = NoCall

\* Allocator::new keeps the memory properties the device reports
SelInit ==
    /\ mem_types \in [1..NumTypes -> [properties : TypeProperties, heap_index : {0}]]
    /\ sel = NoSel
    /\ PoolIdle
    /\ RawIdle
    /\ sizing = NoSizing
    /\ aligning = NoAligning

\* one call of find_mem_type_index
FindMemTypeIndex ==
    /\ sel.op = "none"
    /\ \E allowed_index_mask \in AllowedMasks, options \in SelOptions :
          sel' = [op |-> "find", allowed_index_mask |-> allowed_index_mask,
                  options |-> options,
                  res |-> find_mem_type_index(mem_types, allowed_index_mask, options)]
    /\ UNCHANGED mem_types
    /\ UNCHANGED <<PoolVars, RawVars, SizeVars, AlignVars>>

SelNext == FindMemTypeIndex

SelSpec == SelInit /\ [][SelNext]_vars

\* -------------------------------------- align_up as a state machine

\* the addresses and the alignments align_up is given: every alignment is a
\* power of two
AlignAddrs == 0..(4 * HeapSize)

AlignAlignments == {a \in 1..(2 * HeapSize) : IsPowerOfTwo(a)}

AlignInit ==
    /\ aligning \in {[NoAligning EXCEPT !.addr = addr, !.alignment = alignment] :
                       addr \in AlignAddrs, alignment \in AlignAlignments}
    /\ sizing = NoSizing
    /\ mem_types = <<>>
    /\ sel = NoSel
    /\ PoolIdle
    /\ RawIdle

\* align_up(addr, alignment), then align_up of what it returned
AlignUp ==
    /\ aligning.op \in {"none", "aligned"}
    /\ aligning' =
          IF aligning.op = "none"
          THEN [aligning EXCEPT !.op = "aligned",
                                !.res = align_up(aligning.addr, aligning.alignment)]
          ELSE [aligning EXCEPT !.op = "realigned",
                                !.again = align_up(aligning.res, aligning.alignment)]
    /\ UNCHANGED <<PoolVars, SelVars, RawVars, SizeVars>>

AlignNext == AlignUp

AlignSpec == AlignInit /\ [][AlignNext]_vars

\* ---------------------------------------- the sizing as a state machine

\* the device reports a heap and the caller gives its HeapOptions
SizeInit ==
    /\ sizing \in {[NoSizing EXCEPT !.heap = h, !.usage = u, !.block_size = b] :
                     h \in SizeHeaps, u \in SizeUsages, b \in SizeBlockSizes}
    /\ mem_types = <<>>
    /\ sel = NoSel
    /\ PoolIdle
    /\ RawIdle
    /\ aligning = NoAligning

\* Allocator::new for the heap: max_bytes of the usage, then heap_block_size
NewHeapPool ==
    /\ sizing.op = "none"
    /\ sizing' = [sizing EXCEPT
                     !.op = "sized",
                     !.res = heap_block_size(sizing.heap,
                                             UsageMaxBytes(sizing.usage, sizing.heap),
                                             sizing.block_size)]
    /\ UNCHANGED <<PoolVars, SelVars, RawVars, AlignVars>>

SizeNext == NewHeapPool

SizeSpec == SizeInit /\ [][SizeNext]_vars

\* --------------------------- the Allocator, its heaps and caller threads

\* the threads that call the Allocator
Threads == {1, 2}

\* the heaps of the device, by index
Heaps == {0, 1}

\* the heap of memory type idx (mem_props.memory_types[idx].heap_index)
HeapOf(idx) == mem_types[idx + 1].heap_index

\* The memory types of the device: the last type is on heap 1, the others on
\* heap 0; the first and the last have no property bit, the others are
\* host-visible.
RawTypeConfigs ==
    {[i \in 1..NumTypes |->
         [properties |-> IF i = 1 \/ i = NumTypes THEN {} ELSE {"CPU_VISIBLE"},
          heap_index |-> IF i = NumTypes THEN 1 ELSE 0]]}

\* AllocOptions of the calls (control apart)
RawOptions ==
    [usage : {"None"}, preferred_props : {{}}, required_props : {{}},
     type_index_mask : {{}, {0, NumTypes - 1}}]

\* What allocate_raw is given: the memory::Requirements of the resource and
\* the options, control (options.control) among them.
RawRequests ==
    {r \in [size : {1, HeapSize}, alignment : {1},
            type_mask : {TypeIndices, {1}},
            control : Controls, options : RawOptions] :
        \/ r.options.type_index_mask = {}
        \/ r.size = HeapSize /\ r.type_mask = TypeIndices}

\* an allocate_raw that takes the control of the call as it is
ControlKept(dedicated, control) == control

\* allocate_raw: the control the call runs with
ControlOf(dedicated, control) ==
    IF dedicated THEN [kind |-> "Dedicated", no_alloc |-> FALSE] ELSE control

\* AllocRes with its heap index
AllocResOn(mem, start, end, heap_idx) ==
    [mem |-> mem, start |-> start, end |-> end, heap_idx |-> heap_idx]

\* Mutex::new
MutexNew == [holder |-> 0, poisoned |-> FALSE]

\* a Mutex that lets every thread in
MutexFreeAlways(m) == TRUE

\* Mutex::lock returns: no thread holds the Mutex
MutexFree(m) == m.holder = 0

\* a thread outside any call (res: what its last call returned; attempts:
\* the calls of try_allocate its allocate_raw has made)
NoThread ==
    [pc |-> "idle", op |-> "none",
     req |-> [size |-> 0, alignment |-> 1, type_mask |-> {},
              control |-> [kind |-> "Pool", no_alloc |-> FALSE],
              options |-> NoSel.options],
     control |-> [kind |-> "Pool", no_alloc |-> FALSE],
     allowed_mask |-> {}, common_err |-> "none", idx |-> 0, heap |-> 0,
     attempts |-> 0, alloc |-> AllocResOn(0, 0, 0, 0), res |-> "none"]

\* thread t is between the lock of a heap's Mutex and the drop of its guard
Inside(t) == threads[t].pc \in {"in", "device", "out"}

\* The Arcs of raw memory mem that are held apart from the Block's and from
\* the one thread t gave to Pool::free: those of the live sub-allocations, of
\* the other frees under way and of the AllocRes other threads are returning.
OtherArcs(t, mem) ==
    Holders(live, mem)
    + Cardinality({u \in Threads \ {t} :
          /\ threads[u].alloc.mem = mem
          /\ \/ threads[u].op = "free" /\ threads[u].pc \in {"lock", "in", "out"}
             \/ threads[u].op = "alloc" /\ threads[u].pc = "out"
                /\ threads[u].res = "Ok"})

\* Allocator::new: one Pool behind its Mutex per heap
RawInit ==
    /\ mem_types \in RawTypeConfigs
    /\ pools = [h \in 1..Cardinality(Heaps) |->
                   LET hb == heap_block_size(HeapSize, HeapSize, HeapSize)
                   IN  PoolNew(hb[1], hb[2])]
    /\ mutexes = [h \in 1..Cardinality(Heaps) |-> MutexNew]
    /\ threads = [t \in Threads |-> NoThread]
    /\ memories = <<>>
    /\ live = EmptyBag
    /\ debug_assertions \in BOOLEAN
    /\ nops = 0
    /\ pool = PoolNew(0, 0)
    /\ poisoned = FALSE
    /\ last = NoCall
    /\ sel = NoSel
    /\ allocator_options \in [dedicated : BOOLEAN]
    /\ sizing = NoSizing
    /\ aligning = NoAligning

\* allocate_buffer / allocate_image enter allocate_raw: control is Dedicated
\* or that of the call, allowed_mask is reqs.type_mask, common_err is None
CallAllocate(t) ==
    /\ threads[t].pc = "idle"
    /\ nops < MaxOps
    /\ \E req \in RawRequests :
          threads' = [threads EXCEPT ![t] =
                         [NoThread EXCEPT !.pc = "find", !.op = "alloc", !.req = req,
                                          !.control = ControlOf(allocator_options.dedicated,
                                                                req.control),
                                          !.allowed_mask = req.type_mask]]
    /\ nops' = nops + 1
    /\ UNCHANGED <<pools, mutexes, memories, live, debug_assertions, mem_types>>
    /\ UNCHANGED <<pool, poisoned, last, sel, allocator_options, sizing, aligning>>

\* allocate_raw: the test of the while loop and find_mem_type_index; with no
\* type left the call returns common_err, or HeapExhausted
FindType(t) ==
    /\ threads[t].pc = "find"
    /\ LET th == threads[t]
           found == IF th.allowed_mask = {} THEN None
                    ELSE find_mem_type_index(mem_types, th.allowed_mask, th.req.options)
       IN  threads' = [threads EXCEPT ![t] =
               IF found.some
               THEN [th EXCEPT !.pc = "lock", !.idx = found.idx,
                               !.heap = HeapOf(found.idx), !.attempts = @ + 1]
               ELSE [NoThread EXCEPT
                               !.res = IF th.common_err /= "none" THEN th.common_err
                                       ELSE "HeapExhausted"]]
    /\ UNCHANGED <<pools, mutexes, memories, live, debug_assertions, mem_types, nops>>
    /\ UNCHANGED <<pool, poisoned, last, sel, allocator_options, sizing, aligning>>

\* self.pools[heap].lock().unwrap() of try_allocate and of free_buffer /
\* free_image: the thread waits for the Mutex; a poisoned Mutex makes unwrap
\* panic (the guard inside the error is dropped)
Lock(t) ==
    /\ threads[t].pc = "lock"
    /\ MutexFree(mutexes[threads[t].heap + 1])
    /\ IF mutexes[threads[t].heap + 1].poisoned
       THEN /\ threads' = [threads EXCEPT ![t].pc = "panicked", ![t].res = "panic"]
            /\ UNCHANGED mutexes
       ELSE /\ threads' = [threads EXCEPT ![t].pc = "in"]
            /\ mutexes' = [mutexes EXCEPT ![threads[t].heap + 1].holder = t]
    /\ UNCHANGED <<pools, memories, live, debug_assertions, mem_types, nops>>
    /\ UNCHANGED <<pool, poisoned, last, sel, allocator_options, sizing, aligning>>

\* Pool::allocate under the lock, up to the call of device.allocate_memory
\* if it makes one
PoolAllocateCall(t) ==
    /\ threads[t].pc = "in" /\ threads[t].op = "alloc"
    /\ LET th == threads[t]
       IN  \E r \in {PoolAllocate(pools[th.heap + 1], th.idx, th.req.size,
                                  th.req.alignment, th.control, TRUE,
                                  Len(memories) + 1)} :
              IF r.requested
              THEN /\ threads' = [threads EXCEPT ![t].pc = "device"]
                   /\ UNCHANGED pools
              ELSE /\ threads' = [threads EXCEPT ![t].pc = "out", ![t].res = r.res,
                                      ![t].alloc = AllocResOn(r.mem, r.start, r.end, th.heap)]
                   /\ pools' = [pools EXCEPT ![th.heap + 1] = r.pool]
    /\ UNCHANGED <<mutexes, memories, live, debug_assertions, mem_types, nops>>
    /\ UNCHANGED <<pool, poisoned, last, sel, allocator_options, sizing, aligning>>

\* Pool::new_block_alloc under the lock: device.allocate_memory answers and
\* the Block is created and the request placed in it
DeviceCall(t) ==
    /\ threads[t].pc = "device"
    /\ LET th == threads[t]
       IN  \E device_ok \in DeviceAnswers(TRUE) :
           \E r \in {PoolAllocate(pools[th.heap + 1], th.idx, th.req.size,
                                  th.req.alignment, th.control, device_ok,
                                  Len(memories) + 1)} :
              /\ threads' = [threads EXCEPT ![t].pc = "out", ![t].res = r.res,
                                 ![t].alloc = AllocResOn(r.mem, r.start, r.end, th.heap)]
              /\ pools' = [pools EXCEPT ![th.heap + 1] = r.pool]
              /\ memories' = IF r.created
                             THEN Append(memories, [size |-> r.sz, mem_type_index |-> th.idx,
                                                    released |-> 0])
                             ELSE memories
    /\ UNCHANGED <<mutexes, live, debug_assertions, mem_types, nops>>
    /\ UNCHANGED <<pool, poisoned, last, sel, allocator_options, sizing, aligning>>

\* free_buffer / free_image: the caller gives its allocation up and the call
\* goes for the Mutex of the allocation's heap
CallFree(t) ==
    /\ threads[t].pc = "idle"
    /\ \E a \in BagToSet(live) :
          /\ live' = live (-) SetToBag({a})
          /\ threads' = [threads EXCEPT ![t] =
                            [NoThread EXCEPT !.pc = "lock", !.op = "free", !.alloc = a,
                                             !.heap = a.heap_idx]]
    /\ UNCHANGED <<pools, mutexes, memories, debug_assertions, mem_types, nops>>
    /\ UNCHANGED <<pool, poisoned, last, sel, allocator_options, sizing, aligning>>

\* Pool::free under the lock
PoolFreeCall(t) ==
    /\ threads[t].pc = "in" /\ threads[t].op = "free"
    /\ LET th == threads[t]
       IN  \E r \in {PoolFree(pools[th.heap + 1], th.alloc.mem, th.alloc.start,
                              OtherArcs(t, th.alloc.mem), debug_assertions)} :
              /\ threads' = [threads EXCEPT ![t].pc = "out",
                                 ![t].res = IF r.panic THEN "panic" ELSE "Ok"]
              /\ pools' = [pools EXCEPT ![th.heap + 1] = r.pool]
              /\ memories' = IF r.released
                             THEN [memories EXCEPT ![th.alloc.mem].released = @ + 1]
                             ELSE memories
    /\ UNCHANGED <<mutexes, live, debug_assertions, mem_types, nops>>
    /\ UNCHANGED <<pool, poisoned, last, sel, allocator_options, sizing, aligning>>

\* The MutexGuard is dropped (the return of try_allocate or of the free, or
\* the unwinding of a panic, which poisons the Mutex).  allocate_raw then
\* returns the Ok, or keeps the error, clears the bit of the type and loops.
Unlock(t) ==
    /\ threads[t].pc = "out"
    /\ LET th == threads[t]
       IN  /\ mutexes' = [mutexes EXCEPT ![th.heap + 1] =
                             [holder |-> 0,
                              poisoned |-> @.poisoned \/ th.res = "panic"]]
           /\ threads' = [threads EXCEPT ![t] =
                  IF th.res = "panic" THEN [th EXCEPT !.pc = "panicked"]
                  ELSE IF th.op = "free" \/ th.res = "Ok"
                  THEN [NoThread EXCEPT !.res = "Ok"]
                  ELSE [th EXCEPT !.pc = "find", !.common_err = th.res, !.res = "none",
                                  !.allowed_mask = ClearBit(@, th.idx)]]
           /\ live' = IF th.op = "alloc" /\ th.res = "Ok"
                      THEN live (+) SetToBag({th.alloc})
                      ELSE live
    /\ UNCHANGED <<pools, memories, debug_assertions, mem_types, nops>>
    /\ UNCHANGED <<pool, poisoned, last, sel, allocator_options, sizing, aligning>>

RawNext ==
    \E t \in Threads :
        \/ CallAllocate(t)
        \/ FindType(t)
        \/ Lock(t)
        \/ PoolAllocateCall(t)
        \/ DeviceCall(t)
        \/ CallFree(t)
        \/ PoolFreeCall(t)
        \/ Unlock(t)

RawSpec == RawInit /\ [][RawNext]_vars

\* ------------------------------------------------------------ the claims

\* the size of a Block: that of its raw memory (Block::new gets the sz that
\* allocate_memory got)
BlockSize(b) == memories[b.mem].size

Blocks == {pool.blocks[i] : i \in 1..Len(pool.blocks)}

\* the Blocks of the Pool that wrap raw memory mem
BlocksOf(mem) == {b \in Blocks : b.mem = mem}

HasOccupied(chunks) == \E i \in 1..Len(chunks) : chunks[i].occupied

\* I1 for one chunk list
ChunksPartition(chunks, size) ==
    /\ Len(chunks) >= 1
    /\ chunks[1].start = 0
    /\ chunks[Len(chunks)].end = size
    /\ \A i \in 1..(Len(chunks) - 1) :
          /\ chunks[i + 1].start = chunks[i].end
          /\ chunks[i].start <= chunks[i + 1].start

\* I2 for one chunk list
ChunksCoalesced(chunks) ==
    \A i \in 1..(Len(chunks) - 1) : chunks[i].occupied \/ chunks[i + 1].occupied

\* C1: after every sequence of allocate and free calls that returned, the
\* chunks of every Block are ordered by start and partition [0, size): the
\* first starts at 0, each starts where the previous one ends, the last ends
\* at the block size.
C1_ChunksPartitionBlock ==
    ~poisoned => \A b \in Blocks : ChunksPartition(b.chunks, BlockSize(b))

\* C2: after every sequence of allocate and free calls that returned, no two
\* adjacent chunks of a Block are both free.
C2_NoAdjacentFreeChunks ==
    ~poisoned => \A b \in Blocks : ChunksCoalesced(b.chunks)

\* C3: the ranges of two sub-allocations live at the same time in the same
\* Block never overlap (the same range held twice is an overlap).
C3_LiveRangesDisjoint ==
    \A a \in BagToSet(live) :
       /\ CopiesIn(a, live) = 1
       /\ \A b \in BagToSet(live) :
             (a /= b /\ a.mem = b.mem) => (a.end <= b.start \/ b.end <= a.start)

\* C4: every successful placement returns [start, end) with start a multiple
\* of the alignment, end - start >= size and end <= the size of the Block.
C4_PlacementAlignedAndInside ==
    (last.op = "alloc" /\ last.res = "Ok") =>
        /\ last.start % last.alignment = 0
        /\ last.end - last.start >= last.size
        /\ last.end <= memories[last.mem].size

\* C4 witness: a placement in a Block that already held chunks, behind a
\* pre-pad (the chunk it was cut from did not start on the alignment).
C4_Witness ==
    /\ last.op = "alloc" /\ last.res = "Ok" /\ ~last.created
    /\ last.alignment > 1
    /\ \E b \in BlocksOf(last.mem) : \E i \in 1..Len(b.chunks) :
          b.chunks[i].end = last.start /\ b.chunks[i].start % last.alignment /= 0

\* C5: in every reachable state of the Pool, used_bytes <= max_bytes (a
\* request that would take it above is turned down, not carried out).
C5_UsedWithinMax == pool.used_bytes <= pool.max_bytes

\* C6: a new Block is turned down with HeapExhausted exactly when
\* used_bytes + new_block_size > max_bytes; when it is turned down the Pool
\* is left as it was and the device is not asked for raw memory.
C6_RejectedExactlyWhenOverMax ==
    (last.op = "alloc" /\ last.grew) =>
        /\ (last.res = "HeapExhausted")
              <=> (last.before.used_bytes + last.sz > last.before.max_bytes)
        /\ (last.res = "HeapExhausted") => (pool = last.before /\ ~last.requested)

\* C7: a free that returns and leaves its Block without occupied chunks has
\* removed the Block from the Pool and released its raw memory to the device,
\* and no raw memory is released more than once.
C7_EmptiedBlockRemovedAndReleased ==
    /\ (last.op = "free" /\ last.res = "Ok"
        /\ \A b \in BlocksOf(last.mem) : ~HasOccupied(b.chunks))
           => /\ BlocksOf(last.mem) = {}
              /\ last.removed /\ last.released
              /\ memories[last.mem].released = 1
    /\ \A m \in 1..Len(memories) : memories[m].released <= 1

\* C8: while a sub-allocation drawn from a Block is live, the Block is in the
\* Pool and its raw memory has not been released; a released raw memory
\* belongs to no Block of the Pool.
C8_NoReleaseWhileLive ==
    \A m \in 1..Len(memories) :
       /\ Holders(live, m) > 0 => (memories[m].released = 0 /\ BlocksOf(m) /= {})
       /\ memories[m].released > 0 => BlocksOf(m) = {}

\* C8 witness: a free has returned while another sub-allocation of the same
\* Block is still live.
C8_Witness ==
    /\ last.op = "free" /\ last.res = "Ok"
    /\ Holders(live, last.mem) > 0

RECURSIVE SumBlockSizes(_)
SumBlockSizes(blocks) ==
    IF blocks = <<>> THEN 0 ELSE BlockSize(Head(blocks)) + SumBlockSizes(Tail(blocks))

C10_DedicatedCreatedAlone ==
    /\ (last.op = "alloc" /\ last.control.kind = "Dedicated" /\ last.res = "Ok")
           => /\ last.created
              /\ Len(pool.blocks) = Len(last.before.blocks) + 1
              /\ memories[last.mem].size = last.size
    /\ \A b \in Blocks : b.dedicated => Holders(live, b.mem) <= 1

C10_DedicatedFreed ==
    (/\ last.op = "alloc" /\ last.control.kind = "Dedicated" /\ last.res = "Ok"
     /\ last'.op = "free" /\ last'.mem = last.mem)
        => /\ \A i \in 1..Len(pool'.blocks) : pool'.blocks[i].mem /= last.mem
           /\ memories'[last.mem].released = 1

\* C10, whole: the Dedicated request creates its own Block, never shared,
\* and the free of its allocation removes the Block and releases the memory.
C10_DedicatedBlockLifecycle ==
    [](C10_DedicatedCreatedAlone) /\ [][C10_DedicatedFreed]_vars

\* the bits the selected type must have: required_props and those of the usage
RequiredOf(options) == options.required_props \cup UsageRequired(options.usage)

\* the bits the selection favours: preferred_props and those of the usage
PreferredOf(options) == options.preferred_props \cup UsagePreferred(options.usage)

\* the properties of the memory type of index i
PropsOfType(i) == mem_types[i + 1].properties

\* the candidates of a selection: the indices in allowed_mask (and in
\* type_index_mask when it is not zero) whose type has every required bit
SelCandidates(allowed_index_mask, options) ==
    {i \in 0..(Len(mem_types) - 1) :
        /\ i \in allowed_index_mask
        /\ (options.type_index_mask /= {} => i \in options.type_index_mask)
        /\ RequiredOf(options) \subseteq PropsOfType(i)}

\* popcount(preferred_props /\ type properties)
SelScore(i, options) == Cardinality(PreferredOf(options) \cap PropsOfType(i))

\* C11: the selection returns, among the allowed types that have every
\* required bit, the one of greatest score, the lowest index among equals (so
\* of T0 with the required bits only, T1 with one preferred bit more and T2
\* with two more, it returns T2).
C11_SelectsBestCandidate ==
    (sel.op = "find" /\ SelCandidates(sel.allowed_index_mask, sel.options) /= {}) =>
        LET cand == SelCandidates(sel.allowed_index_mask, sel.options)
            best == {i \in cand :
                        \A j \in cand : SelScore(j, sel.options) <= SelScore(i, sel.options)}
        IN  sel.res.some /\ sel.res.idx = Min(best)

\* C12: a returned index is in allowed_mask, in type_index_mask when that is
\* not zero, and names a type that has every required bit; the selection
\* fails exactly when there is no such type.
C12_SelectedIsCandidate ==
    sel.op = "find" =>
        /\ sel.res.some =>
              sel.res.idx \in SelCandidates(sel.allowed_index_mask, sel.options)
        /\ ~sel.res.some <=> SelCandidates(sel.allowed_index_mask, sel.options) = {}

\* C13: the type selected for CpuOnly is host-visible and host-coherent, the
\* type selected for CpuToGpu or GpuToCpu is host-visible.
C13_UsageGuarantees ==
    (sel.op = "find" /\ sel.res.some) =>
        /\ sel.options.usage = "CpuOnly"
              => {"CPU_VISIBLE", "COHERENT"} \subseteq PropsOfType(sel.res.idx)
        /\ sel.options.usage \in {"CpuToGpu", "GpuToCpu"}
              => "CPU_VISIBLE" \in PropsOfType(sel.res.idx)

\* a chunk list has room for (size, alignment): the test of the placement
\* holds of one of its free chunks
HasRoom(chunks, size, alignment) ==
    \E i \in 1..Len(chunks) :
        /\ ~chunks[i].occupied
        /\ align_up(align_up(chunks[i].start, alignment) + size, alignment) <= chunks[i].end

SearchedChunks ==
    IF last.created THEN <<Chunk(0, last.sz, FALSE)>>
    ELSE LET i == CHOOSE i \in 1..Len(last.before.blocks) :
                      last.before.blocks[i].mem = last.mem
         IN  last.before.blocks[i].chunks

\* the start offsets of the free chunks of a list that pass the placement test
FittingStarts(chunks, size, alignment) ==
    {chunks[i].start : i \in {j \in 1..Len(chunks) :
        /\ ~chunks[j].occupied
        /\ align_up(align_up(chunks[j].start, alignment) + size, alignment)
              <= chunks[j].end}}

\* C16: placement is first-fit: the range returned is cut from the free chunk
\* of lowest offset that passes the test (so a request that fits the span
\* freed at the start of a Block gets that offset back), and a placement
\* fails only when no free chunk passes.
C16_FirstFitLowestOffset ==
    /\ (last.op = "alloc" /\ last.res = "Ok") =>
          LET fit == FittingStarts(SearchedChunks, last.size, last.alignment)
          IN  /\ fit /= {}
              /\ last.start = align_up(Min(fit), last.alignment)
              /\ last.end = align_up(last.start + last.size, last.alignment)
    /\ (last.op = "alloc" /\ last.res = "NoFreeBlock") =>
          \A i \in 1..Len(last.before.blocks) :
              LET b == last.before.blocks[i]
              IN  (b.mem_type_index = last.mem_type_index /\ ~b.dedicated)
                      => FittingStarts(b.chunks, last.size, last.alignment) = {}

\* C17: allocate, free that allocation, allocate the same (size, alignment)
\* again with nothing in between: the second allocation gets the offset of
\* the first.
C17_SameRequestAfterFree ==
    (/\ last.op = "free" /\ last.res = "Ok" /\ last.fresh
     /\ last'.op = "alloc" /\ last'.res = "Ok"
     /\ last'.size = last.size /\ last'.alignment = last.alignment
     /\ last'.mem_type_index = last.mem_type_index /\ last'.control = last.control)
        => last'.start = last.start

C17_AllocFreeAllocSameOffset == [][C17_SameRequestAfterFree]_vars

\* C18: once every allocation drawn from a Block has been freed, whatever
\* the order, the frees have returned and the Block (when Pool::free has not
\* dropped it) is one free chunk spanning [0, size).
C18_AllFreedLeavesOneChunk ==
    (last.op = "free" /\ Holders(live, last.mem) = 0) =>
        /\ last.res = "Ok"
        /\ \A b \in BlocksOf(last.mem) :
              b.chunks = <<Chunk(0, BlockSize(b), FALSE)>>

\* the memory types thread t's allocation call has tried so far
TriedTypes(t) == threads[t].req.type_mask \ threads[t].allowed_mask

\* C14: an allocation call returns an error only once every candidate type
\* (in type_mask, with every required bit) has been tried; the error is the
\* one of the last type tried, HeapExhausted when none was tried.
C14_FailsAfterAllCandidates ==
    \A t \in Threads :
        (threads[t].pc = "find" /\ threads'[t].pc = "idle") =>
            /\ SelCandidates(threads[t].req.type_mask, threads[t].req.options)
                  \subseteq TriedTypes(t)
            /\ threads'[t].res = IF TriedTypes(t) = {} THEN "HeapExhausted"
                                 ELSE threads[t].common_err

C14_ErrorOnlyAfterEveryCandidate == [][C14_FailsAfterAllCandidates]_vars

\* C19: on one heap at most one thread is inside an operation (search and
\* split, free and merge, the device's raw-memory call included), and it
\* holds the heap's Mutex from the start of the operation to its end.
C19_OneThreadInsideHeap ==
    /\ \A t \in Threads :
          Inside(t) => mutexes[threads[t].heap + 1].holder = t
    /\ \A t, u \in Threads :
          (t /= u /\ Inside(t) /\ Inside(u)) => threads[t].heap /= threads[u].heap

\* C19 witness: a thread is in the device's allocate_memory under the lock
\* of a heap while another thread waits for the Mutex of that heap.
C19_Witness ==
    \E t, u \in Threads :
        /\ t /= u
        /\ threads[t].pc = "device"
        /\ threads[u].pc = "lock" /\ threads[u].heap = threads[t].heap
        /\ mutexes[threads[t].heap + 1].holder = t

\* C20: a thread holds at most one heap's Mutex at a time, a thread that
\* waits for a Mutex waits for a thread that is inside its operation and
\* waits for nothing, and every call ends by returning (its result or an
\* error): none ends in a panic.
C20_OneLockNoDeadlockAllReturn ==
    /\ \A t \in Threads :
          Cardinality({h \in 1..Len(mutexes) : mutexes[h].holder = t}) <= 1
    /\ \A t \in Threads :
          (threads[t].pc = "lock" /\ ~MutexFree(mutexes[threads[t].heap + 1]))
              => Inside(mutexes[threads[t].heap + 1].holder)
    /\ \A t \in Threads : threads[t].pc /= "panicked"

\* C21: a heap configured with usage Forbid (its Pool gets max_bytes 0) is
\* never used: its Pool never holds a Block, the device is never asked for
\* raw memory of it, and every allocation that targets it fails.
C21_ForbiddenHeapNeverUsed ==
    pool.max_bytes = 0 =>
        /\ Len(pool.blocks) = 0
        /\ Len(memories) = 0
        /\ last.op = "alloc" => (last.res /= "Ok" /\ ~last.requested)

\* 2^k
RECURSIVE Pow2(_)
Pow2(k) == IF k = 0 THEN 1 ELSE 2 * Pow2(k - 1)

\* x >= 1 rounded down to a power of two: the greatest power of two <= x
RoundedDownToPowerOfTwo(x) ==
    CHOOSE p \in {Pow2(k) : k \in 0..30} : p <= x /\ x - p < p

\* b halved while it exceeds max: the first of b, b / 2, b / 4, ... that
\* does not exceed max
HalvedToFit(b, max) ==
    LET halves == {0} \cup {b \div Pow2(k) : k \in 0..30}
    IN  CHOOSE v \in halves : v <= max /\ \A w \in halves : w <= max => w <= v

\* the default block size of a heap of H bytes: 256 MiB from 1 GiB on, else
\* an eighth of the heap
DefaultBlockSize(H) ==
    IF H >= 1024 * 1024 * 1024 THEN 256 * 1024 * 1024 ELSE H \div 8

\* C22: the sizing returns max_bytes = min(requested_max, H), and as block
\* size the requested one, or the default when the requested one is 0 or
\* above max_bytes, rounded down to a power of two and then halved while it
\* exceeds max_bytes; with usage Whole and the default block size a heap of
\* 512 MiB gets 64 MiB and a heap of 1 GiB or more gets 256 MiB.
C22_SizingPolicy ==
    sizing.op = "sized" =>
        LET H == sizing.heap
            requested_max == CASE sizing.usage.kind = "Forbid" -> 0
                               [] sizing.usage.kind = "Whole" -> H
                               [] OTHER -> sizing.usage.n
            max_bytes == IF requested_max <= H THEN requested_max ELSE H
            chosen == IF sizing.block_size = 0 \/ sizing.block_size > max_bytes
                      THEN DefaultBlockSize(H) ELSE sizing.block_size
        IN  /\ sizing.res[1] = max_bytes
            /\ chosen >= 1 =>
                  sizing.res[2] = HalvedToFit(RoundedDownToPowerOfTwo(chosen), max_bytes)
            /\ (sizing.usage.kind = "Whole" /\ sizing.block_size = 0) =>
                  /\ H = 512 * 1024 * 1024 => sizing.res = <<H, 64 * 1024 * 1024>>
                  /\ H >= 1024 * 1024 * 1024 => sizing.res = <<H, 256 * 1024 * 1024>>

\* C22 witness: a heap one byte short of 1 GiB limited to 5 bytes, default
\* block size: an eighth of the heap, rounded down to 64 MiB, halved down
\* to 4 bytes.
C22_Witness ==
    /\ sizing.op = "sized"
    /\ sizing.heap = 1024 * 1024 * 1024 - 1
    /\ sizing.usage = [kind |-> "Upto", n |-> 5]
    /\ sizing.block_size = 0
    /\ sizing.res = <<5, 4>>

\* C23: with AllocatorOptions::dedicated every allocation runs in Dedicated
\* mode whatever the control of the call, Pool with no_alloc included: an
\* allocation that succeeds has got a new Block of its own, of the size it
\* asked for, and no Block ever serves a second allocation.
C23_DedicatedAllocatorOverrides ==
    allocator_options.dedicated =>
        /\ \A t \in Threads :
              threads[t].op = "alloc" =>
                  /\ threads[t].control.kind = "Dedicated"
                  /\ threads[t].res /= "NoFreeBlock"
                  /\ threads[t].common_err /= "NoFreeBlock"
        /\ \A t \in Threads :
              (threads[t].op = "alloc" /\ threads[t].pc = "out" /\ threads[t].res = "Ok") =>
                  LET blocks == pools[threads[t].heap + 1].blocks
                      a == threads[t].alloc
                  IN  /\ Len(blocks) >= 1
                      /\ blocks[Len(blocks)].mem = a.mem
                      /\ blocks[Len(blocks)].dedicated
                      /\ memories[a.mem].size = threads[t].req.size
                      /\ a.start = 0
                      /\ OtherArcs(t, a.mem) = 0
        /\ \A m \in 1..Len(memories) : Holders(live, m) <= 1

\* C23 witness: under AllocatorOptions::dedicated a call made in Pool mode
\* with no_alloc returns an allocation from a Pool that already held a Block.
C23_Witness ==
    /\ allocator_options.dedicated
    /\ \E t \in Threads :
          /\ threads[t].op = "alloc" /\ threads[t].pc = "out" /\ threads[t].res = "Ok"
          /\ threads[t].req.control = [kind |-> "Pool", no_alloc |-> TRUE]
          /\ Len(pools[threads[t].heap + 1].blocks) >= 2
          /\ Holders(live, pools[threads[t].heap + 1].blocks[1].mem) = 1

\* the Block of Pool p that wraps raw memory mem has an occupied chunk that
\* starts at addr
OccupiedChunkAt(p, mem, addr) ==
    \E i \in 1..Len(p.blocks) :
        /\ p.blocks[i].mem = mem
        /\ \E j \in 1..Len(p.blocks[i].chunks) :
              /\ p.blocks[i].chunks[j].start = addr
              /\ p.blocks[i].chunks[j].occupied

\* C24: the free of an offset at which the Block has no occupied chunk (no
\* chunk starts there, or a free one does) aborts, and leaves every chunk
\* list as it was: nothing is marked, merged or removed.
C24_FreeOfNoOccupiedChunkAborts ==
    (last.op = "free" /\ ~OccupiedChunkAt(last.before, last.mem, last.start)) =>
        /\ last.res = "panic"
        /\ pool = last.before

\* a chunk list with the free chunk at position i replaced by a free pre-pad
\* if not empty, the occupied chunk [start, end), a free post-pad if not empty
PlacedChunks(chunks, i, start, end) ==
    SubSeq(chunks, 1, i - 1)
    \o (IF start > chunks[i].start THEN <<Chunk(chunks[i].start, start, FALSE)>> ELSE <<>>)
    \o <<Chunk(start, end, TRUE)>>
    \o (IF end < chunks[i].end THEN <<Chunk(end, chunks[i].end, FALSE)>> ELSE <<>>)
    \o SubSeq(chunks, i + 1, Len(chunks))

\* the chunk list of the Block of the Pool that wraps raw memory mem
ChunksOf(mem) ==
    pool.blocks[CHOOSE i \in 1..Len(pool.blocks) : pool.blocks[i].mem = mem].chunks

\* C25: a successful placement has replaced the free chunk it accepted, at
\* its position, by a free pre-pad if not empty, the occupied chunk
\* [start, end) and a free post-pad if not empty; the other chunks are as
\* they were and no chunk of the list is empty.
C25_PlacementSplitsChunk ==
    (last.op = "alloc" /\ last.res = "Ok") =>
        /\ \E i \in 1..Len(SearchedChunks) :
              /\ ~SearchedChunks[i].occupied
              /\ SearchedChunks[i].start <= last.start
              /\ last.end <= SearchedChunks[i].end
              /\ ChunksOf(last.mem) = PlacedChunks(SearchedChunks, i, last.start, last.end)
        /\ \A j \in 1..Len(ChunksOf(last.mem)) :
              ChunksOf(last.mem)[j].start < ChunksOf(last.mem)[j].end

\* a chunk list with the chunk at position p marked free and merged with its
\* left neighbour if that is free and with its right neighbour if that is
\* free: one free chunk over their union, the other chunks as they were
FreedAndMerged(chunks, p) ==
    LET lo == IF p > 1 /\ ~chunks[p - 1].occupied THEN p - 1 ELSE p
        hi == IF p < Len(chunks) /\ ~chunks[p + 1].occupied THEN p + 1 ELSE p
    IN  SubSeq(chunks, 1, lo - 1)
        \o <<Chunk(chunks[lo].start, chunks[hi].end, FALSE)>>
        \o SubSeq(chunks, hi + 1, Len(chunks))

\* the chunk list the last call found in the Block that wraps raw memory mem
ChunksBefore(mem) ==
    last.before.blocks[CHOOSE i \in 1..Len(last.before.blocks) :
                           last.before.blocks[i].mem = mem].chunks

\* C26: a free that returns has marked the chunk that starts at the offset
\* free and merged it with its left neighbour if free and with its right
\* neighbour if free: the Block's list is the list the call found with those
\* chunks replaced by one free chunk over their union, all others unchanged.
C26_FreeMergesNeighbours ==
    (last.op = "free" /\ last.res = "Ok" /\ ~last.removed) =>
        \E p \in 1..Len(ChunksBefore(last.mem)) :
            /\ ChunksBefore(last.mem)[p].start = last.start
            /\ \A q \in 1..(p - 1) : ChunksBefore(last.mem)[q].start /= last.start
            /\ ChunksOf(last.mem) = FreedAndMerged(ChunksBefore(last.mem), p)

\* C27: Block free returns true exactly when it leaves one chunk, a free
\* one, that is when no occupied chunk is left: a free that returned false
\* (the Block stayed in the Pool) has left an occupied chunk and more than
\* one chunk or an occupied one, and a free that returned true has had its
\* Block removed.
C27_TrueIffBlockEmpty ==
    (last.op = "free" /\ last.res = "Ok") =>
        IF last.removed THEN BlocksOf(last.mem) = {}
        ELSE /\ HasOccupied(ChunksOf(last.mem))
             /\ ~(Len(ChunksOf(last.mem)) = 1 /\ ~ChunksOf(last.mem)[1].occupied)

\* C28: the free of a live allocation never aborts: the Pool holds the Block
\* of the allocation's raw memory, that Block has an occupied chunk starting
\* at the allocation's offset, and the call returns (no index out of the
\* chunk list, the chunk being the last or the only one included).
C28_FreeOfLiveNeverAborts ==
    last.op = "free" =>
        /\ \E i \in 1..Len(last.before.blocks) : last.before.blocks[i].mem = last.mem
        /\ OccupiedChunkAt(last.before, last.mem, last.start)
        /\ last.res = "Ok"

\* the occupied chunks of the Pool's Blocks: <<Block position, chunk position>>
OccupiedChunks ==
    {ij \in UNION {{<<i, j>> : j \in 1..Len(pool.blocks[i].chunks)} :
                      i \in 1..Len(pool.blocks)} :
        pool.blocks[ij[1]].chunks[ij[2]].occupied}

\* C29: the occupied chunks of the Pool's Blocks and the live sub-allocations
\* of the heap correspond one to one: the range of each live sub-allocation
\* is the span of exactly one occupied chunk of its Block, and each occupied
\* chunk is the range of a live sub-allocation.
C29_OccupiedChunksAreLiveAllocations ==
    /\ \A a \in BagToSet(live) :
          /\ CopiesIn(a, live) = 1
          /\ Cardinality({ij \in OccupiedChunks :
                 /\ pool.blocks[ij[1]].mem = a.mem
                 /\ pool.blocks[ij[1]].chunks[ij[2]].start = a.start
                 /\ pool.blocks[ij[1]].chunks[ij[2]].end = a.end}) = 1
    /\ \A ij \in OccupiedChunks :
          AllocRes(pool.blocks[ij[1]].mem, pool.blocks[ij[1]].chunks[ij[2]].start,
                   pool.blocks[ij[1]].chunks[ij[2]].end) \in BagToSet(live)

\* C30: in Pool mode without no_alloc a new Block is created only when no
\* Block of the memory type that is not dedicated has room for the request;
\* the Block created has the size max(size, block_size), and the request is
\* then placed in it: the call returns a range of the new Block.
C30_PoolGrowsOnlyWhenFull ==
    (last.op = "alloc" /\ last.control = [kind |-> "Pool", no_alloc |-> FALSE]) =>
        /\ last.grew =>
              \A i \in 1..Len(last.before.blocks) :
                  LET b == last.before.blocks[i]
                  IN  (b.mem_type_index = last.mem_type_index /\ ~b.dedicated)
                          => ~HasRoom(b.chunks, last.size, last.alignment)
        /\ last.created =>
              LET new == pool.blocks[Len(pool.blocks)]
              IN  /\ Len(pool.blocks) = Len(last.before.blocks) + 1
                  /\ BlockSize(new) = Max2(last.size, last.before.block_size)
                  /\ new.mem_type_index = last.mem_type_index
                  /\ last.res = "Ok"
                  /\ last.mem = new.mem
                  /\ last.end <= BlockSize(new)

\* C31: a Pool-mode allocation is placed in a Block of the memory type that
\* was selected and that is not flagged dedicated, never in a Block of
\* another memory type of the heap.
C31_PoolPlacementInOwnTypeBlock ==
    (last.op = "alloc" /\ last.control.kind = "Pool" /\ last.res = "Ok") =>
        /\ BlocksOf(last.mem) /= {}
        /\ \A b \in BlocksOf(last.mem) :
              b.mem_type_index = last.mem_type_index /\ ~b.dedicated

\* C32: a Block is flagged dedicated exactly when a Dedicated request has
\* created it; a Block created by the growth of a Pool-mode request is not
\* flagged and can serve later Pool-mode requests of its memory type.
C32_DedicatedFlagIffDedicatedRequest ==
    (last.op = "alloc" /\ last.created) =>
        (pool.blocks[Len(pool.blocks)].dedicated <=> last.control.kind = "Dedicated")

\* C33: allocate, then free that allocation with nothing in between: the
\* free returns and the Pool is as it was before the allocation, with the
\* same Blocks, the same chunk lists and the same used_bytes.
C33_FreeUndoesAllocate ==
    (/\ last.op = "alloc" /\ last.res = "Ok"
     /\ last'.op = "free" /\ last'.fresh)
        => (last'.res = "Ok" /\ pool' = last.before)

C33_AllocateThenFreeRestoresPool == [][C33_FreeUndoesAllocate]_vars

\* C34: when allocate_buffer / allocate_image returns an error (creation of
\* the resource, raw allocation or bind), the Pool is as it was before the
\* call: no Block created for the call is left, no chunk list is changed
\* and used_bytes is what it was.
C34_FailedCallLeavesPool ==
    (last.op = "alloc" /\ last.res \notin {"Ok", "panic"}) => pool = last.before

\* the Blocks of a collection that do not wrap raw memory mem, in order
OtherBlocks(blocks, mem) == SelectSeq(blocks, LAMBDA b : b.mem /= mem)

\* C35: a free changes only the Block that wraps the raw memory of the
\* allocation and, when that Block has left the collection, the collection
\* and used_bytes: the other Blocks of the heap keep their chunk lists and
\* their order, and the Pool of every other heap is unchanged.
C35_FreeStepFrame ==
    \A t \in Threads :
        (threads[t].op = "free" /\ threads[t].pc = "in" /\ threads'[t].pc = "out") =>
            LET h == threads[t].heap + 1
                mem == threads[t].alloc.mem
            IN  /\ \A g \in 1..Len(pools) : g /= h => pools'[g] = pools[g]
                /\ OtherBlocks(pools'[h].blocks, mem) = OtherBlocks(pools[h].blocks, mem)
                /\ pools'[h].max_bytes = pools[h].max_bytes
                /\ pools'[h].block_size = pools[h].block_size
                /\ Len(pools'[h].blocks) = Len(pools[h].blocks)
                       => pools'[h].used_bytes = pools[h].used_bytes
                /\ \A m \in 1..Len(memories) : m /= mem => memories'[m] = memories[m]

C35_FreeChangesOwningBlockOnly == [][C35_FreeStepFrame]_vars

\* C35 witness: a free has returned on a heap while the other heap holds a
\* Block and the freed allocation's Block is still shared.
C35_Witness ==
    \E t \in Threads :
        /\ threads[t].op = "free" /\ threads[t].pc = "out" /\ threads[t].res = "Ok"
        /\ \A g \in 1..Len(pools) : Len(pools[g].blocks) >= 1
        /\ Holders(live, threads[t].alloc.mem) >= 1

\* C36: the retry loop of an allocation call terminates: the type an
\* iteration tries is a set bit of allowed_mask, the iteration that fails
\* clears that bit and no other, the loop is left when no bit is set, so no
\* type is tried twice in a call and the attempts of a call are at most the
\* bits set in the type mask of the requirements.
C36_IterationClearsOneBit ==
    \A t \in Threads :
        /\ (threads[t].pc = "find" /\ threads'[t].pc = "lock") =>
               /\ threads'[t].idx \in threads[t].allowed_mask
               /\ threads'[t].idx \notin TriedTypes(t)
        /\ (threads[t].pc = "out" /\ threads'[t].pc = "find") =>
               /\ threads[t].idx \in threads[t].allowed_mask
               /\ threads'[t].allowed_mask = threads[t].allowed_mask \ {threads[t].idx}
        /\ (threads[t].pc = "find" /\ threads[t].allowed_mask = {}) =>
               threads'[t].pc \in {"find", "idle"}
        /\ threads'[t].allowed_mask \subseteq threads'[t].req.type_mask
        /\ threads'[t].attempts <= Cardinality(threads'[t].req.type_mask)

C36_RetryLoopTerminates == [][C36_IterationClearsOneBit]_vars

\* C36 witness: a call is back at the test of the loop after two attempts
\* that failed, on two memory types.
C36_Witness ==
    \E t \in Threads :
        /\ threads[t].pc = "find"
        /\ threads[t].attempts = 2
        /\ Cardinality(TriedTypes(t)) = 2

\* what Allocator::new hands to the sizing as max_bytes and what the sizing
\* chooses before it rounds
C37_RequestedMax ==
    CASE sizing.usage.kind = "Forbid" -> 0
      [] sizing.usage.kind = "Whole" -> sizing.heap
      [] OTHER -> sizing.usage.n

C37_MaxBytes ==
    IF C37_RequestedMax <= sizing.heap THEN C37_RequestedMax ELSE sizing.heap

C37_Chosen ==
    IF sizing.block_size = 0 \/ sizing.block_size > C37_MaxBytes
    THEN DefaultBlockSize(sizing.heap) ELSE sizing.block_size

\* C37 as stated: for every heap size, usage limit and requested block size
\* the sizing returns a block_size that is a power of two and does not
\* exceed max_bytes, with max_bytes <= heap size.
C37_BlockSizePowerOfTwo ==
    sizing.op = "sized" =>
        /\ \E k \in 0..30 : sizing.res[2] = Pow2(k)
        /\ sizing.res[2] <= sizing.res[1]
        /\ sizing.res[1] <= sizing.heap

\* C37 amended: the sizing returns max_bytes <= heap size and a block_size
\* that does not exceed max_bytes and is a power of two or 0; it is 0
\* exactly when max_bytes is 0 or the block size chosen before the rounding
\* is 0, the default of a heap under 8 bytes.
C37_BlockSizePowerOfTwoOrZero ==
    sizing.op = "sized" =>
        /\ sizing.res[2] = 0 \/ \E k \in 0..30 : sizing.res[2] = Pow2(k)
        /\ sizing.res[2] <= sizing.res[1]
        /\ sizing.res[1] <= sizing.heap
        /\ sizing.res[2] = 0 <=> (C37_MaxBytes = 0 \/ C37_Chosen = 0)

\* C37 witness: a heap of 5 bytes used whole with the default block size:
\* an eighth of the heap is 0, and 0 is what the sizing returns.
C37_Witness ==
    /\ sizing.op = "sized"
    /\ sizing.heap = 5
    /\ sizing.usage.kind = "Whole"
    /\ sizing.block_size = 0
    /\ sizing.res = <<5, 0>>

\* C38: for every addr and every power-of-two alignment align_up(addr,
\* alignment) is the smallest multiple of alignment that is >= addr: it is
\* addr itself when addr is a multiple of alignment, it is >= addr and
\* < addr + alignment, and align_up of it returns it again.
C38_AlignUpSmallestMultiple ==
    /\ aligning.op /= "none" =>
          /\ aligning.res % aligning.alignment = 0
          /\ \A m \in aligning.addr..(aligning.res - 1) : m % aligning.alignment /= 0
          /\ (\E k \in 0..aligning.addr : aligning.addr = k * aligning.alignment) =>
                 aligning.res = aligning.addr
          /\ aligning.res >= aligning.addr
          /\ aligning.res < aligning.addr + aligning.alignment
    /\ aligning.op = "realigned" => aligning.again = aligning.res

\* C38 witness: an address that is not aligned was rounded up past the
\* carry of several low bits, and align_up of the result was taken.
C38_Witness ==
    /\ aligning.op = "realigned"
    /\ aligning.addr = 5
    /\ aligning.alignment = 4
    /\ aligning.res = 8
    /\ aligning.again = 8

====
